---- MODULE Spec2Model ----
(***************************************************************************)
(* Model of os_paw/api_utils.py: validation of bounding-box and polygon    *)
(* coordinate strings against the extent of a spatial reference system,    *)
(* conversion of GeoJSON features, and construction of the OGC polygon     *)
(* filter.                                                                 *)
(*                                                                         *)
(* A Python str is a sequence of one-character strings.  A Python float is *)
(* a record [nan, num, den]: the value num/den with den a power of ten, or *)
(* NaN.  A raised exception is the field exc of an outcome record, with    *)
(* msg naming the assertion that failed; trace lists, in order, the steps  *)
(* the call went through.                                                  *)
(***************************************************************************)
EXTENDS Integers, Sequences, FiniteSets, TLC

VARIABLES pc, op, input, args, ret, heap

vars == <<pc, op, input, args, ret, heap>>

----------------------------------------------------------------------------
(* Bounds of the model                                                      *)

MaxBboxTokens == 5

MaxVertices == 3

MaxFilterChars == 3

MaxRingVertices == 4

MaxFeatures == 2

----------------------------------------------------------------------------
(* Python built-ins used by the module                                      *)

Digits == {"0", "1", "2", "3", "4", "5", "6", "7", "8", "9"}

Whitespace == {" ", "\n", "\t"}

DigitVal(c) ==
    CASE c = "0" -> 0 [] c = "1" -> 1 [] c = "2" -> 2 [] c = "3" -> 3
      [] c = "4" -> 4 [] c = "5" -> 5 [] c = "6" -> 6 [] c = "7" -> 7
      [] c = "8" -> 8 [] c = "9" -> 9

DigitChar(d) ==
    CASE d = 0 -> "0" [] d = 1 -> "1" [] d = 2 -> "2" [] d = 3 -> "3"
      [] d = 4 -> "4" [] d = 5 -> "5" [] d = 6 -> "6" [] d = 7 -> "7"
      [] d = 8 -> "8" [] d = 9 -> "9"

RECURSIVE Pow10(_)
Pow10(k) == IF k = 0 THEN 1 ELSE 10 * Pow10(k - 1)

\* str.split(sep) for a one-character separator: empty pieces are kept.
RECURSIVE Split(_, _)
Split(s, sep) ==
    IF \A i \in DOMAIN s : s[i] # sep
    THEN <<s>>
    ELSE LET i == CHOOSE k \in DOMAIN s :
                      s[k] = sep /\ \A j \in 1..(k - 1) : s[j] # sep
         IN  <<SubSeq(s, 1, i - 1)>> \o Split(SubSeq(s, i + 1, Len(s)), sep)

\* str.strip(): leading and trailing whitespace removed.
RECURSIVE LStrip(_)
LStrip(s) ==
    IF s # <<>> /\ s[1] \in Whitespace THEN LStrip(Tail(s)) ELSE s

RECURSIVE RStrip(_)
RStrip(s) ==
    IF s # <<>> /\ s[Len(s)] \in Whitespace
    THEN RStrip(SubSeq(s, 1, Len(s) - 1))
    ELSE s

Strip(s) == RStrip(LStrip(s))

\* sep.join(parts)
RECURSIVE Join(_, _)
Join(parts, sep) ==
    IF parts = <<>> THEN <<>>
    ELSE IF Len(parts) = 1 THEN parts[1]
    ELSE parts[1] \o sep \o Join(Tail(parts), sep)

\* The value of a sequence of decimal digits.
RECURSIVE DecVal(_)
DecVal(ds) ==
    IF ds = <<>> THEN 0
    ELSE 10 * DecVal(SubSeq(ds, 1, Len(ds) - 1)) + DigitVal(ds[Len(ds)])

NaN == [nan |-> TRUE, num |-> 0, den |-> 1]

Num(n, d) == [nan |-> FALSE, num |-> n, den |-> d]

\* float(text): surrounding whitespace is ignored; then an optional sign
\* followed by "nan" or by decimal digits with at most one point and at least
\* one digit.  Any other text raises ValueError (ok = FALSE).  Exponents,
\* "inf" and digit-group underscores are not among the texts modelled.
float(text) ==
    LET t    == Strip(text)
        sign == IF t # <<>> /\ t[1] = "-" THEN -1 ELSE 1
        body == IF t # <<>> /\ t[1] \in {"+", "-"} THEN Tail(t) ELSE t
        dots == {i \in DOMAIN body : body[i] = "."}
        ds   == SelectSeq(body, LAMBDA c : c \in Digits)
    IN  IF body = <<"n", "a", "n">>
        THEN [ok |-> TRUE, val |-> NaN]
        ELSE IF \/ \E i \in DOMAIN body : body[i] \notin Digits \cup {"."}
                \/ Cardinality(dots) > 1
                \/ ds = <<>>
        THEN [ok |-> FALSE, val |-> NaN]
        ELSE LET frac == IF dots = {} THEN 0
                         ELSE Len(body) - (CHOOSE i \in dots : TRUE)
             IN  [ok |-> TRUE, val |-> Num(sign * DecVal(ds), Pow10(frac))]

\* a < b and a > b on floats: every comparison with NaN is false.
FloatLt(a, b) == ~a.nan /\ ~b.nan /\ a.num * b.den < b.num * a.den

FloatGt(a, b) == FloatLt(b, a)

\* max(values): the first item is kept unless a later item compares greater.
RECURSIVE PyMax(_)
PyMax(values) ==
    IF Len(values) = 1 THEN values[1]
    ELSE LET m    == PyMax(SubSeq(values, 1, Len(values) - 1))
             item == values[Len(values)]
         IN  IF FloatGt(item, m) THEN item ELSE m

\* min(values): the first item is kept unless a later item compares less.
RECURSIVE PyMin(_)
PyMin(values) ==
    IF Len(values) = 1 THEN values[1]
    ELSE LET m    == PyMin(SubSeq(values, 1, Len(values) - 1))
             item == values[Len(values)]
         IN  IF FloatLt(item, m) THEN item ELSE m

----------------------------------------------------------------------------
(* Outcomes                                                                 *)

Ok(trace) == [exc |-> "none", msg |-> "", trace |-> trace]

Raise(exc, msg, trace) == [exc |-> exc, msg |-> msg, trace |-> trace]

----------------------------------------------------------------------------
(* validate_srs                                                             *)

VALID_SPATIAL_REFERENCE_SYSTEMS == {"EPSG:4326", "EPSG:27700"}

validate_srs(srs_string) ==
    IF srs_string \in VALID_SPATIAL_REFERENCE_SYSTEMS
    THEN Ok(<<"validate_srs">>)
    ELSE Raise("AssertionError", "srs", <<"validate_srs">>)

----------------------------------------------------------------------------
(* _validate_bbox, validate_bbox                                            *)

\* A variant of BboxOperand with the ends of the range included
\* (>= and <= for > and <).
BboxOperandInclusive(bbox_list, i, lo, hi) ==
    IF i > Len(bbox_list) THEN "IndexError"
    ELSE LET f == float(bbox_list[i])
         IN  IF ~f.ok THEN "ValueError"
             ELSE IF ~FloatLt(f.val, Num(lo, 1)) /\ ~FloatGt(f.val, Num(hi, 1))
                     /\ ~f.val.nan
             THEN "in" ELSE "out"

\* One operand pair of the assertions: float(bbox_list[i]) > lo and
\* float(bbox_list[i]) < hi.  The index is taken first, then the conversion.
BboxOperand(bbox_list, i, lo, hi) ==
    IF i > Len(bbox_list) THEN "IndexError"
    ELSE LET f == float(bbox_list[i])
         IN  IF ~f.ok THEN "ValueError"
             ELSE IF FloatGt(f.val, Num(lo, 1)) /\ FloatLt(f.val, Num(hi, 1))
             THEN "in" ELSE "out"

\* One assert of _validate_bbox over the tokens i and j (1-based), evaluated
\* left to right with short-circuit "and".
BboxAssert(bbox_list, i, j, lo, hi, msg, trace) ==
    LET a == BboxOperand(bbox_list, i, lo, hi)
    IN  IF a \in {"IndexError", "ValueError"} THEN Raise(a, "", trace)
        ELSE IF a = "out" THEN Raise("AssertionError", msg, trace)
        ELSE LET b == BboxOperand(bbox_list, j, lo, hi)
             IN  IF b \in {"IndexError", "ValueError"} THEN Raise(b, "", trace)
                 ELSE IF b = "out" THEN Raise("AssertionError", msg, trace)
                 ELSE Ok(trace)

_validate_bbox(bbox_string, srs, min_x, max_x, min_y, max_y) ==
    LET bbox_list == Split(bbox_string, ",")
        trace     == <<"validate_srs", "split_bbox">>
        first     == BboxAssert(bbox_list, 1, 3, min_y, max_y, "Latitude", trace)
    IN  IF first.exc # "none" THEN first
        ELSE BboxAssert(bbox_list, 2, 4, min_x, max_x, "Longitude", trace)

validate_bbox(bbox_string, srs) ==
    LET s == validate_srs(srs)
    IN  IF s.exc # "none" THEN s
        ELSE IF srs = "EPSG:4326"
        THEN _validate_bbox(bbox_string, "EPSG:4326", -7, 2, 49, 61)
        ELSE IF srs = "EPSG:27700"
        THEN _validate_bbox(bbox_string, "EPSG:27700", 0, 700000, 0, 1250000)
        ELSE s

----------------------------------------------------------------------------
(* _validate_polygon_string, validate_polygon_string                        *)

\* polygon_coords: every vertex split on "," and every piece converted.
PolygonCoords(polygon_string) ==
    LET vertices == Split(polygon_string, " ")
    IN  [i \in DOMAIN vertices |->
            LET pieces == Split(vertices[i], ",")
            IN  [j \in DOMAIN pieces |-> float(pieces[j])]]

\* zip(*polygon_coords)[k]: the k-th value of every vertex; zip stops at the
\* shortest vertex.
ZipLen(coords) ==
    CHOOSE n \in 0..100 :
        /\ \A i \in DOMAIN coords : Len(coords[i]) >= n
        /\ \E i \in DOMAIN coords : Len(coords[i]) = n

Transposed(coords, k) == [i \in DOMAIN coords |-> coords[i][k].val]

\* A variant of _validate_polygon_string with the two assertions in the
\* other order.
ValidatePolygonLongitudeFirst(polygon_string, srs, min_x, max_x, min_y, max_y) ==
    LET coords == PolygonCoords(polygon_string)
        trace  == <<"validate_srs", "split_polygon">>
    IN  IF \E i \in DOMAIN coords : \E j \in DOMAIN coords[i] : ~coords[i][j].ok
        THEN Raise("ValueError", "", trace)
        ELSE IF ZipLen(coords) < 2
        THEN Raise("IndexError", "", trace)
        ELSE LET max_lat == PyMax(Transposed(coords, 1))
                 min_lat == PyMin(Transposed(coords, 1))
                 max_lon == PyMax(Transposed(coords, 2))
                 min_lon == PyMin(Transposed(coords, 2))
             IN  IF ~(FloatGt(min_lon, Num(min_x, 1)) /\ FloatLt(max_lon, Num(max_x, 1)))
                 THEN Raise("AssertionError", "Longitude", trace)
                 ELSE IF ~(FloatGt(min_lat, Num(min_y, 1)) /\ FloatLt(max_lat, Num(max_y, 1)))
                 THEN Raise("AssertionError", "Latitude", trace)
                 ELSE Ok(trace)

_validate_polygon_string(polygon_string, srs, min_x, max_x, min_y, max_y) ==
    LET coords == PolygonCoords(polygon_string)
        trace  == <<"validate_srs", "split_polygon">>
    IN  IF \E i \in DOMAIN coords : \E j \in DOMAIN coords[i] : ~coords[i][j].ok
        THEN Raise("ValueError", "", trace)
        ELSE IF ZipLen(coords) < 2
        THEN Raise("IndexError", "", trace)
        ELSE LET max_lat == PyMax(Transposed(coords, 1))
                 min_lat == PyMin(Transposed(coords, 1))
                 max_lon == PyMax(Transposed(coords, 2))
                 min_lon == PyMin(Transposed(coords, 2))
             IN  IF ~(FloatGt(min_lat, Num(min_y, 1)) /\ FloatLt(max_lat, Num(max_y, 1)))
                 THEN Raise("AssertionError", "Latitude", trace)
                 ELSE IF ~(FloatGt(min_lon, Num(min_x, 1)) /\ FloatLt(max_lon, Num(max_x, 1)))
                 THEN Raise("AssertionError", "Longitude", trace)
                 ELSE Ok(trace)

\* A variant of validate_polygon_string without the call of validate_srs
\* and with EPSG:4326 as the fallback.
ValidatePolygonWithoutSrsCheck(polygon_string, srs) ==
    IF srs = "EPSG:27700"
    THEN _validate_polygon_string(polygon_string, "EPSG:27700", 0, 700000, 0, 1250000)
    ELSE _validate_polygon_string(polygon_string, "EPSG:4326", -7, 2, 49, 61)

validate_polygon_string(polygon_string, srs) ==
    LET s == validate_srs(srs)
    IN  IF s.exc # "none" THEN s
        ELSE IF srs = "EPSG:4326"
        THEN _validate_polygon_string(polygon_string, "EPSG:4326", -7, 2, 49, 61)
        ELSE IF srs = "EPSG:27700"
        THEN _validate_polygon_string(polygon_string, "EPSG:27700",
                                           0, 700000, 0, 1250000)
        ELSE s

----------------------------------------------------------------------------
(* validate_api_service, validate_type_name, validate_output_format,        *)
(* validate_request_params                                                  *)

UpperCase ==
    <<"A", "B", "C", "D", "E", "F", "G", "H", "I", "J", "K", "L", "M",
      "N", "O", "P", "Q", "R", "S", "T", "U", "V", "W", "X", "Y", "Z">>

LowerCase ==
    <<"a", "b", "c", "d", "e", "f", "g", "h", "i", "j", "k", "l", "m",
      "n", "o", "p", "q", "r", "s", "t", "u", "v", "w", "x", "y", "z">>

\* str.lower()
Lower(s) ==
    [i \in DOMAIN s |->
        IF \E k \in DOMAIN UpperCase : UpperCase[k] = s[i]
        THEN LowerCase[CHOOSE k \in DOMAIN UpperCase : UpperCase[k] = s[i]]
        ELSE s[i]]

\* a in b, for two strings
IsSubstring(a, b) ==
    \E i \in 1..(Len(b) + 1) :
        i + Len(a) - 1 <= Len(b) /\ SubSeq(b, i, i + Len(a) - 1) = a

\* The member names of the enumeration API_Service.
API_Service == { <<"w", "f", "s">>, <<"w", "m", "t", "s">>,
                 <<"v", "t", "s">>, <<"z", "x", "y">> }

\* VALID_OUTPUT_FORMATS is the string 'geojson', not a tuple.
VALID_OUTPUT_FORMATS == <<"g", "e", "o", "j", "s", "o", "n">>

\* The product catalogue of a service, of the module os_paw.products.
products(api_service) ==
    [Open |-> {"Zoomstack_Airports"}, Premium |-> {"Topography_TopographicArea"}]

validate_api_service(api_service) ==
    IF api_service \in API_Service
    THEN Ok(<<"validate_type_name">>)
    ELSE Raise("TypeError", "api_service", <<"validate_type_name">>)

validate_type_name(type_name, api_service, allow_premium) ==
    LET service          == Lower(api_service)
        checked          == validate_api_service(service)
        open_products    == products(service).Open
        premium_products == products(service).Premium
        all_products     == open_products \cup premium_products
        trace            == <<"validate_type_name">>
    IN  IF checked.exc # "none" THEN checked
        ELSE IF ~allow_premium
        THEN IF type_name \notin open_products /\ type_name \in premium_products
             THEN Raise("ValueError", "premium", trace)
             ELSE IF type_name \notin all_products
             THEN Raise("ValueError", "product", trace)
             ELSE Ok(trace)
        ELSE IF type_name \notin all_products
             THEN Raise("ValueError", "product", trace)
             ELSE Ok(trace)

validate_output_format(output_format_string) ==
    IF IsSubstring(Lower(output_format_string), VALID_OUTPUT_FORMATS)
    THEN Ok(<<"validate_output_format">>)
    ELSE Raise("AssertionError", "output_format", <<"validate_output_format">>)

\* The outcome r of one step, after the steps of trace.
After(trace, r) == [r EXCEPT !.trace = trace \o r.trace]

\* One statement followed by the rest of the function body: an exception
\* ends the call, otherwise the rest runs.
Then(r, rest) == IF r.exc # "none" THEN r ELSE After(r.trace, rest)

\* bbox and polygon_string default to False; an empty string is as false.
validate_request_params(api_service, allow_premium, type_name, srs, output_format, bbox, polygon_string) ==
    Then(validate_type_name(type_name, api_service, allow_premium),
    Then(validate_srs(srs),
    Then(IF bbox # <<>> THEN validate_bbox(bbox, srs) ELSE Ok(<<>>),
    Then(IF polygon_string # <<>>
         THEN validate_polygon_string(polygon_string, srs) ELSE Ok(<<>>),
         validate_output_format(output_format)))))

----------------------------------------------------------------------------
(* create_polygon_filter                                                    *)

Spaces(n) == [i \in 1..n |-> " "]

\* The lines of the template once formatted.  A run of template text that
\* holds no line break and neither starts nor ends with whitespace is one
\* element; the indentation, srs_num and poly_string are character by
\* character.
FilterTemplate(srs_num, poly_string) ==
    << <<"<ogc:Filter>">>,
       Spaces(16) \o <<"<ogc:Intersects>">>,
       Spaces(20) \o <<"<ogc:PropertyName>SHAPE</ogc:PropertyName>">>,
       Spaces(20) \o <<"<gml:Polygon srsName=\"urn:ogc:def:crs:EPSG::">>
                  \o srs_num \o <<"\">">>,
       Spaces(24) \o <<"<gml:outerBoundaryIs>">>,
       Spaces(28) \o <<"<gml:LinearRing>">>,
       Spaces(32) \o <<"<gml:coordinates>">> \o poly_string
                  \o <<"</gml:coordinates>">>,
       Spaces(28) \o <<"</gml:LinearRing>">>,
       Spaces(24) \o <<"</gml:outerBoundaryIs>">>,
       Spaces(20) \o <<"</gml:Polygon>">>,
       Spaces(16) \o <<"</ogc:Intersects>">>,
       Spaces(12) \o <<"</ogc:Filter>">> >>

\* A variant of TidyWhitespace that joins the lines without stripping them.
TidyWithoutStrip(xml) == Join(Split(xml, "\n"), <<>>)

\* "".join([line.strip() for line in xml.split('\n')])
TidyWhitespace(xml) ==
    LET lines == Split(xml, "\n")
    IN  Join([i \in DOMAIN lines |-> Strip(lines[i])], <<>>)

create_polygon_filter(polygon_string, srs) ==
    LET pieces == Split(srs, ":")
    IN  IF Len(pieces) < 2
        THEN [exc |-> "IndexError", value |-> <<>>]
        ELSE [exc |-> "none",
              value |-> TidyWhitespace(
                            Join(FilterTemplate(pieces[2], polygon_string),
                                 <<"\n">>))]

----------------------------------------------------------------------------
(* geojson_polygon_to_string                                                *)

\* A coordinate of a GeoJSON position is a Python int or float:
\* [kind, num, den] with the value num/den.
PyInt(n) == [kind |-> "int", num |-> n, den |-> 1]

PyFloat(n, d) == [kind |-> "float", num |-> n, den |-> d]

Abs(n) == IF n < 0 THEN -n ELSE n

\* The decimal digits of a natural number.
RECURSIVE NatStr(_)
NatStr(n) ==
    IF n < 10 THEN <<DigitChar(n)>>
    ELSE NatStr(n \div 10) \o <<DigitChar(n % 10)>>

\* The digits of the fraction f/d, 0 <= f < d and d a power of ten, without
\* trailing zeros.
RECURSIVE FracStr(_, _)
FracStr(f, d) ==
    IF f = 0 THEN <<>>
    ELSE <<DigitChar((f * 10) \div d)>> \o FracStr((f * 10) % d, d)

\* str(x): an int prints its digits, a float its shortest decimal form with
\* at least one digit after the point.
str(x) ==
    LET sign == IF x.num < 0 THEN <<"-">> ELSE <<>>
        whole == Abs(x.num) \div x.den
        frac  == Abs(x.num) % x.den
    IN  IF x.kind = "int" THEN sign \o NatStr(whole)
        ELSE sign \o NatStr(whole) \o <<".">>
                  \o (IF frac = 0 THEN <<"0">> ELSE FracStr(frac, x.den))

\* coord[::-1]
Reversed(coord) == [i \in DOMAIN coord |-> coord[Len(coord) + 1 - i]]

\* A variant of geojson_polygon_to_string that keeps each pair in (x, y)
\* order.
PolygonToStringUnreversed(geojson) ==
    LET ring == geojson.geometry.coordinates[1]
        polygon_coord_strings ==
            [i \in DOMAIN ring |->
                Join([j \in DOMAIN ring[i] |-> str(ring[i][j])], <<",">>)]
    IN  [value |-> Join(polygon_coord_strings, <<" ">>), geojson |-> geojson]

\* The returned string, and the argument as the call leaves it.
geojson_polygon_to_string(geojson) ==
    LET ring == geojson.geometry.coordinates[1]
        polygon_coord_strings ==
            [i \in DOMAIN ring |->
                Join([j \in DOMAIN ring[i] |-> str(Reversed(ring[i])[j])], <<",">>)]
    IN  [value |-> Join(polygon_coord_strings, <<" ">>), geojson |-> geojson]

----------------------------------------------------------------------------
(* convert_single_feature_to_geojson, convert_features_to_geojson           *)

\* A variant of convert_single_feature_to_geojson that builds the Feature
\* without the properties of the input.
ConvertSingleWithoutProperties(single_feature) ==
    [type |-> "Feature",
     geometry |-> [type |-> "LineString",
                   coordinates |-> single_feature.geometry.coordinates[1]],
     properties |-> "{}"]

\* geojson.Feature(geometry=geometry_type(new_coordinates), properties=...)
\* with geometry_type left at its default, LineString.
convert_single_feature_to_geojson(single_feature) ==
    LET new_coordinates == single_feature.geometry.coordinates[1]
        new_linestring  == [type |-> "LineString", coordinates |-> new_coordinates]
    IN  [type |-> "Feature", geometry |-> new_linestring,
         properties |-> single_feature.properties]

\* The returned list, and the argument as the call leaves it.
convert_features_to_geojson(features) ==
    [value |-> [i \in DOMAIN features |->
                    convert_single_feature_to_geojson(features[i])],
     features |-> features]

----------------------------------------------------------------------------
(* Inputs                                                                   *)

SrsInputs == {"EPSG:4326", "EPSG:27700", "EPSG:3857"}

\* The first four bbox tokens.  EPSG:4326: a latitude below, on and inside
\* the range and on its upper end, a longitude on both ends and inside (once
\* after a blank), NaN and a word.  EPSG:27700: values on and inside both
\* ranges, between the two upper ends and above both.
BboxTokens(srs) ==
    IF srs = "EPSG:4326"
    THEN { <<"4", "8">>, <<"4", "9">>, <<"4", "9", ".", "5">>, <<"6", "0">>,
           <<"6", "1">>, <<"-", "7">>, <<"-", "6">>, <<"1">>, <<" ", "1">>,
           <<"2">>, <<"n", "a", "n">>, <<"x">> }
    ELSE IF srs = "EPSG:27700"
    THEN { <<"0">>, <<"1", "0", "0">>, <<"7", "0", "0", "0", "0", "0">>,
           <<"8", "0", "0", "0", "0", "0">>,
           <<"1", "2", "5", "0", "0", "0", "0">>,
           <<"1", "3", "0", "0", "0", "0", "0">>, <<"n", "a", "n">>, <<"x">> }
    ELSE { <<"4", "8">>, <<"6", "0">>, <<"1">>, <<"x">> }

\* Tokens after the fourth.
BboxExtraTokens == { <<"1">>, <<"x">> }

\* Polygon vertices.  EPSG:4326: inside, latitude out, longitude out, on a
\* bound of either axis, NaN, and vertices of three values, of one value and
\* with a word.  EPSG:27700: the same shapes on the grid's ranges.
PolygonVertices(srs) ==
    IF srs = "EPSG:4326"
    THEN { <<"5", "0", ",", "1">>, <<"4", "9", ".", "9", ",", "-", "1", ".", "1">>,
           <<"4", "8", ",", "1">>, <<"5", "0", ",", "3">>,
           <<"4", "9", ",", "1">>, <<"5", "0", ",", "2">>,
           <<"n", "a", "n", ",", "1">>, <<"5", "0", ",", "1", ",", "9">>,
           <<"5", "0">>, <<"x", ",", "1">> }
    ELSE IF srs = "EPSG:27700"
    THEN { <<"1", "0", "0", ",", "1", "0", "0">>,
           <<"8", "0", "0", "0", "0", "0", ",", "1", "0", "0">>,
           <<"1", "0", "0", ",", "8", "0", "0", "0", "0", "0">>,
           <<"1", "2", "5", "0", "0", "0", "0", ",", "1", "0", "0">>,
           <<"1", "0", "0", ",", "0">>,
           <<"n", "a", "n", ",", "1", "0", "0">>,
           <<"1", "0", "0", ",", "1", "0", "0", ",", "9">>,
           <<"1", "0", "0">>, <<"x", ",", "1", "0", "0">> }
    ELSE { <<"5", "0", ",", "1">>, <<"4", "8", ",", "1">>, <<"x">> }

\* Inputs of validate_request_params: a member name in either case and a
\* name that is no member; an open, a premium and an unknown product; a
\* format that is accepted and one that is not; no bbox (False), one inside
\* EPSG:4326, one outside and one that does not convert; the same for
\* polygons.
ApiServiceInputs == { <<"w", "f", "s">>, <<"W", "F", "S">>, <<"w", "c", "s">> }

TypeNameInputs == {"Zoomstack_Airports", "Topography_TopographicArea", "Bogus"}

OutputFormatInputs == { <<"G", "e", "o", "J", "S", "O", "N">>, <<"x", "m", "l">> }

RequestBboxInputs ==
    { <<>>,
      <<"4", "9", ".", "5", ",", "-", "6", ",", "6", "0", ",", "1">>,
      <<"4", "8", ",", "-", "6", ",", "6", "0", ",", "1">>,
      <<"x">> }

RequestPolygonInputs ==
    { <<>>,
      <<"5", "0", ",", "1", " ", "5", "0", ",", "-", "1">>,
      <<"4", "8", ",", "1">>,
      <<"x">> }

\* Inputs of create_polygon_filter: polygon_string is put together from up
\* to MaxFilterChars pieces, each a digit, a separator or a line break, the
\* first possibly the polygon of the documentation; an srs with one colon,
\* with two, with a line break in its code and with none.
FilterPieces == { <<"1">>, <<",">>, <<" ">>, <<"\n">> }

DocumentedPolygon ==
    <<"4", "9", ".", "9", ",", "-", "1", ".", "1", " ",
      "5", "0", ".", "1", ",", "-", "1", ".", "1", " ",
      "5", "0", ".", "1", ",", "-", "0", ".", "9", " ",
      "4", "9", ".", "9", ",", "-", "0", ".", "9">>

FilterSrsInputs ==
    { <<"E", "P", "S", "G", ":", "4", "3", "2", "6">>,
      <<"E", "P", "S", "G", ":", "2", "7", "7", "0", "0">>,
      <<"E", "P", "S", "G", ":", "4", "3", "2", "6", ":", "x">>,
      <<"E", "P", "S", "G", ":", "4", "3", "\n", "2", "6">>,
      <<"E", "P", "S", "G">> }

\* GeoJSON positions (x, y): floats, ints, a float with no fraction and a
\* negative value.
Positions ==
    { << PyFloat(-11, 10), PyFloat(499, 10) >>,
      << PyInt(1), PyInt(50) >>,
      << PyFloat(5, 10), PyFloat(50, 1) >>,
      << PyInt(-7), PyFloat(6125, 100) >> }

\* The rings after the first, if any.
InnerRings == { <<>>, << << <<PyInt(1), PyInt(2)>>, <<PyInt(3), PyInt(4)>>,
                           <<PyInt(5), PyInt(6)>> >> >> }

\* Features handed to convert_features_to_geojson.
ConvertFeatures ==
    { [type |-> "Feature",
       geometry |-> [type |-> t, coordinates |-> c],
       properties |-> p] :
         t \in {"LineString", "Polygon"},
         c \in { << <<PyInt(1), PyInt(50)>>, <<PyInt(2), PyInt(51)>> >>,
                 << << <<PyInt(1), PyInt(50)>>, <<PyInt(2), PyInt(51)>>,
                       <<PyInt(1), PyInt(50)>> >> >>,
                 << << <<PyInt(3), PyInt(52)>>, <<PyInt(2), PyInt(51)>>,
                       <<PyInt(3), PyInt(52)>> >>,
                    << <<PyInt(1), PyInt(2)>>, <<PyInt(3), PyInt(4)>>,
                       <<PyInt(1), PyInt(2)>> >> >> },
         p \in {"p1", "p2"} }

Operations ==
    {"validate_bbox", "validate_polygon_string", "validate_request_params",
     "create_polygon_filter", "geojson_polygon_to_string",
     "convert_features_to_geojson"}

\* What the caller fixes first: the srs, or the rings after the first.
FixedChoices(name) ==
    IF name = "create_polygon_filter" THEN FilterSrsInputs
    ELSE IF name = "geojson_polygon_to_string" THEN InnerRings
    ELSE IF name = "convert_features_to_geojson" THEN {<<>>}
    ELSE SrsInputs

\* The choices for the k-th part of the argument the caller puts together:
\* a bbox token, a polygon vertex, a parameter of validate_request_params, a
\* piece of polygon text, a position of the first ring, a feature.
PartChoices(name, fixed, k) ==
    CASE name = "validate_bbox" ->
            IF k <= 4 THEN BboxTokens(fixed)
            ELSE IF k <= MaxBboxTokens THEN BboxExtraTokens ELSE {}
      [] name = "validate_polygon_string" ->
            IF k <= MaxVertices THEN PolygonVertices(fixed) ELSE {}
      [] name = "validate_request_params" ->
            CASE k = 1 -> ApiServiceInputs
              [] k = 2 -> BOOLEAN
              [] k = 3 -> TypeNameInputs
              [] k = 4 -> OutputFormatInputs
              [] k = 5 -> RequestBboxInputs
              [] k = 6 -> RequestPolygonInputs
              [] OTHER -> {}
      [] name = "create_polygon_filter" ->
            IF k > MaxFilterChars THEN {}
            ELSE IF k = 1 THEN FilterPieces \cup {DocumentedPolygon}
            ELSE FilterPieces
      [] name = "geojson_polygon_to_string" ->
            IF k <= MaxRingVertices THEN Positions ELSE {}
      [] name = "convert_features_to_geojson" ->
            IF k <= MaxFeatures THEN ConvertFeatures ELSE {}

\* The fewest parts a call is made with.
MinParts(name) ==
    CASE name = "validate_bbox" -> 3
      [] name = "validate_polygon_string" -> 1
      [] name = "validate_request_params" -> 6
      [] name = "geojson_polygon_to_string" -> 3
      [] OTHER -> 0

----------------------------------------------------------------------------
(* The calls                                                                *)

Init ==
    /\ pc = "idle"
    /\ op = "none"
    /\ input = [fixed |-> <<>>, parts |-> <<>>]
    /\ args = <<>>
    /\ ret = <<>>
    /\ heap = <<>>

\* The caller picks the function to call and its srs.
choose_call ==
    /\ pc = "idle"
    /\ \E name \in Operations : \E fixed \in FixedChoices(name) :
          /\ op' = name
          /\ input' = [fixed |-> fixed, parts |-> <<>>]
    /\ pc' = "building"
    /\ UNCHANGED <<args, ret, heap>>

\* The caller adds a part to the argument.
add_part ==
    /\ pc = "building"
    /\ \E part \in PartChoices(op, input.fixed, Len(input.parts) + 1) :
          input' = [input EXCEPT !.parts = Append(@, part)]
    /\ UNCHANGED <<pc, op, args, ret, heap>>

Ready(name) ==
    pc = "building" /\ op = name /\ Len(input.parts) >= MinParts(name)

call_validate_bbox ==
    /\ Ready("validate_bbox")
    /\ LET bbox_string == Join(input.parts, <<",">>)
           srs         == input.fixed
       IN  /\ args' = [bbox_string |-> bbox_string, srs |-> srs]
           /\ ret' = validate_bbox(bbox_string, srs)
    /\ pc' = "returned"
    /\ UNCHANGED <<op, input, heap>>

call_validate_polygon_string ==
    /\ Ready("validate_polygon_string")
    /\ LET polygon_string == Join(input.parts, <<" ">>)
           srs            == input.fixed
       IN  /\ args' = [polygon_string |-> polygon_string, srs |-> srs]
           /\ ret' = validate_polygon_string(polygon_string, srs)
    /\ pc' = "returned"
    /\ UNCHANGED <<op, input, heap>>

call_validate_request_params ==
    /\ Ready("validate_request_params")
    /\ LET p == input.parts
       IN  /\ args' = [api_service |-> p[1], allow_premium |-> p[2],
                       type_name |-> p[3], srs |-> input.fixed,
                       output_format |-> p[4], bbox |-> p[5],
                       polygon_string |-> p[6]]
           /\ ret' = validate_request_params(p[1], p[2], p[3], input.fixed,
                                             p[4], p[5], p[6])
    /\ pc' = "returned"
    /\ UNCHANGED <<op, input, heap>>

call_create_polygon_filter ==
    /\ Ready("create_polygon_filter")
    /\ LET polygon_string == Join(input.parts, <<>>)
           srs            == input.fixed
       IN  /\ args' = [polygon_string |-> polygon_string, srs |-> srs]
           /\ ret' = create_polygon_filter(polygon_string, srs)
    /\ pc' = "returned"
    /\ UNCHANGED <<op, input, heap>>

call_geojson_polygon_to_string ==
    /\ Ready("geojson_polygon_to_string")
    /\ LET geojson == [type |-> "Feature",
                       geometry |-> [type |-> "Polygon",
                                     coordinates |-> <<input.parts>> \o input.fixed],
                       properties |-> "p"]
       IN  /\ args' = [geojson |-> geojson]
           /\ ret' = [exc |-> "none",
                      value |-> geojson_polygon_to_string(geojson).value]
           /\ heap' = geojson_polygon_to_string(geojson).geojson
    /\ pc' = "returned"
    /\ UNCHANGED <<op, input>>

call_convert_features_to_geojson ==
    /\ Ready("convert_features_to_geojson")
    /\ LET features == input.parts
       IN  /\ args' = [features |-> features]
           /\ ret' = [exc |-> "none",
                      value |-> convert_features_to_geojson(features).value]
           /\ heap' = convert_features_to_geojson(features).features
    /\ pc' = "returned"
    /\ UNCHANGED <<op, input>>

\* The caller takes the result and is ready for the next call.
next_call ==
    /\ pc = "returned"
    /\ pc' = "idle"
    /\ op' = "none"
    /\ input' = [fixed |-> <<>>, parts |-> <<>>]
    /\ args' = <<>>
    /\ ret' = <<>>
    /\ heap' = <<>>

Next ==
    \/ choose_call
    \/ add_part
    \/ call_validate_bbox
    \/ call_validate_polygon_string
    \/ call_validate_request_params
    \/ call_create_polygon_filter
    \/ call_geojson_polygon_to_string
    \/ call_convert_features_to_geojson
    \/ next_call

Spec == Init /\ [][Next]_vars

----------------------------------------------------------------------------
(* Properties of bbox and polygon validation                                *)

\* v lies strictly between lo and hi.
InOpen(v, lo, hi) == ~v.nan /\ lo * v.den < v.num /\ v.num < hi * v.den

\* v is a number on or outside the ends of the range lo..hi.
OutOfRange(v, lo, hi) == ~v.nan /\ (v.num <= lo * v.den \/ v.num >= hi * v.den)

Returned(name) == pc = "returned" /\ op = name

BboxList == Split(args.bbox_string, ",")

BboxValue(i) == float(BboxList[i]).val

FourNumericTokens ==
    Len(BboxList) = 4 /\ \A i \in 1..4 : float(BboxList[i]).ok

PolygonVertexList == Split(args.polygon_string, " ")

VertexValues(i) ==
    LET pieces == Split(PolygonVertexList[i], ",")
    IN  [j \in DOMAIN pieces |-> float(pieces[j])]

WellFormedVertex(i) ==
    Len(VertexValues(i)) = 2 /\ VertexValues(i)[1].ok /\ VertexValues(i)[2].ok

WellFormedPolygon == \A i \in DOMAIN PolygonVertexList : WellFormedVertex(i)

\* The ranges the claims give for the first and the second value of a pair.
Axis1Min(srs) == IF srs = "EPSG:4326" THEN 49 ELSE 0

Axis1Hi(srs) == IF srs = "EPSG:4326" THEN 61 ELSE 1250000

Axis2Min(srs) == IF srs = "EPSG:4326" THEN -7 ELSE 0

Axis2Hi(srs) == IF srs = "EPSG:4326" THEN 2 ELSE 700000

\* C1: for EPSG:4326 and a bbox string of four numeric tokens
\* lat_SW,lon_SW,lat_NE,lon_NE, validate_bbox succeeds exactly when both
\* latitudes lie strictly between 49 and 61 and both longitudes strictly
\* between -7 and 2; "49.5,-6,60,1" passes and "48,-6,60,1" fails.
C1_Bbox4326StrictExtent ==
    (Returned("validate_bbox") /\ args.srs = "EPSG:4326" /\ FourNumericTokens)
    => /\ ret.exc = "none" <=>
              /\ InOpen(BboxValue(1), 49, 61) /\ InOpen(BboxValue(3), 49, 61)
              /\ InOpen(BboxValue(2), -7, 2) /\ InOpen(BboxValue(4), -7, 2)
       /\ args.bbox_string = <<"4", "9", ".", "5", ",", "-", "6", ",", "6", "0", ",", "1">>
              => ret.exc = "none"
       /\ args.bbox_string = <<"4", "8", ",", "-", "6", ",", "6", "0", ",", "1">>
              => ret.exc = "AssertionError"

\* A bbox with a latitude on the lower end of the range has been rejected.
C1_Witness ==
    /\ Returned("validate_bbox") /\ args.srs = "EPSG:4326"
    /\ args.bbox_string = <<"4", "9", ",", "-", "6", ",", "6", "0", ",", "1">>
    /\ ret.exc = "AssertionError"

\* C2: for EPSG:27700 and a bbox string of four numeric tokens in the order
\* Easting_SW,Northing_SW,Easting_NE,Northing_NE, validate_bbox succeeds
\* exactly when both eastings lie strictly between 0 and 700000 and both
\* northings strictly between 0 and 1250000.
C2_Bbox27700DocumentedOrder ==
    (Returned("validate_bbox") /\ args.srs = "EPSG:27700" /\ FourNumericTokens)
    => (ret.exc = "none" <=>
           /\ InOpen(BboxValue(1), 0, 700000) /\ InOpen(BboxValue(3), 0, 700000)
           /\ InOpen(BboxValue(2), 0, 1250000) /\ InOpen(BboxValue(4), 0, 1250000))

\* Every vertex of the polygon string lies strictly inside both ranges.
EveryVertexInside ==
    \A i \in DOMAIN PolygonVertexList :
        /\ InOpen(VertexValues(i)[1].val, Axis1Min(args.srs), Axis1Hi(args.srs))
        /\ InOpen(VertexValues(i)[2].val, Axis2Min(args.srs), Axis2Hi(args.srs))

\* C3: for each supported srs and a well-formed polygon string,
\* validate_polygon_string succeeds exactly when every vertex has its first
\* value strictly inside the axis-1 range and its second value strictly
\* inside the axis-2 range.
C3_PolygonExtentPerVertex ==
    (/\ Returned("validate_polygon_string")
     /\ args.srs \in VALID_SPATIAL_REFERENCE_SYSTEMS
     /\ WellFormedPolygon)
    => (ret.exc = "none" <=> EveryVertexInside)

\* The values of a bbox or polygon string in coordinate order, as pairs
\* <<axis, value>>, for a string whose values all convert.
CoordinateOrder ==
    IF op = "validate_bbox"
    THEN [i \in 1..4 |-> <<IF i % 2 = 1 THEN 1 ELSE 2, BboxValue(i)>>]
    ELSE [k \in 1..(2 * Len(PolygonVertexList)) |->
              <<IF k % 2 = 1 THEN 1 ELSE 2,
                VertexValues((k + 1) \div 2)[IF k % 2 = 1 THEN 1 ELSE 2].val>>]

Violates(pair) ==
    IF pair[1] = 1
    THEN ~InOpen(pair[2], Axis1Min(args.srs), Axis1Hi(args.srs))
    ELSE ~InOpen(pair[2], Axis2Min(args.srs), Axis2Hi(args.srs))

ExtentCallOnWellFormed ==
    /\ pc = "returned"
    /\ op \in {"validate_bbox", "validate_polygon_string"}
    /\ args.srs \in VALID_SPATIAL_REFERENCE_SYSTEMS
    /\ IF op = "validate_bbox" THEN FourNumericTokens ELSE WellFormedPolygon

\* C4 as stated: the failure names the axis of the first violating value in
\* coordinate order.
C4_FirstViolationInCoordinateOrder ==
    (ExtentCallOnWellFormed /\ ret.exc = "AssertionError")
    => \E k \in DOMAIN CoordinateOrder :
          /\ Violates(CoordinateOrder[k])
          /\ \A j \in 1..(k - 1) : ~Violates(CoordinateOrder[j])
          /\ ret.msg = (IF CoordinateOrder[k][1] = 1 THEN "Latitude" ELSE "Longitude")

\* C4 as amended: an extent failure names axis 1 whenever some axis-1 value
\* is a number on or outside the ends of its range, wherever it stands in the
\* string; it names axis 2 only when no axis-1 value is such a number, and
\* then some axis-2 value is not strictly inside its range.
C4_Axis1CheckedBeforeAxis2 ==
    (ExtentCallOnWellFormed /\ ret.exc = "AssertionError")
    => /\ ret.msg \in {"Latitude", "Longitude"}
       /\ (\E k \in DOMAIN CoordinateOrder :
              /\ CoordinateOrder[k][1] = 1
              /\ OutOfRange(CoordinateOrder[k][2],
                            Axis1Min(args.srs), Axis1Hi(args.srs)))
          => ret.msg = "Latitude"
       /\ ret.msg = "Longitude"
          => \E k \in DOMAIN CoordinateOrder :
                CoordinateOrder[k][1] = 2 /\ Violates(CoordinateOrder[k])

\* A ring whose first out-of-range value is a longitude and whose second
\* vertex has an out-of-range latitude has been rejected naming the latitude.
C4_Witness ==
    /\ Returned("validate_polygon_string") /\ args.srs = "EPSG:4326"
    /\ args.polygon_string = <<"5", "0", ",", "3", " ", "4", "8", ",", "1">>
    /\ ret.exc = "AssertionError" /\ ret.msg = "Latitude"

\* C5: validate_polygon_string fails for every polygon string in which some
\* vertex does not consist of exactly two numeric values.
C5_MalformedVertexRejected ==
    (/\ Returned("validate_polygon_string")
     /\ args.srs \in VALID_SPATIAL_REFERENCE_SYSTEMS
     /\ ~WellFormedPolygon)
    => ret.exc # "none"

\* C6: validate_bbox accepts only strings of exactly four numeric tokens, and
\* a string of any other shape fails as malformed input, not as an extent
\* assertion.
C6_BboxExactlyFourNumericTokens ==
    (/\ Returned("validate_bbox")
     /\ args.srs \in VALID_SPATIAL_REFERENCE_SYSTEMS
     /\ ~FourNumericTokens)
    => ret.exc \in {"ValueError", "IndexError"}

\* A step that splits or converts coordinate text.
CoordinateSteps == {"split_bbox", "split_polygon"}

NoCoordinateTextRead ==
    \A i \in DOMAIN ret.trace : ret.trace[i] \notin CoordinateSteps

UnsupportedSrsCall ==
    /\ pc = "returned"
    /\ op \in {"validate_bbox", "validate_polygon_string", "validate_request_params"}
    /\ args.srs \notin VALID_SPATIAL_REFERENCE_SYSTEMS

\* C7 as stated: with an unsupported srs every validating entry point fails
\* in validate_srs, before any coordinate text is split or converted.
C7_UnsupportedSrsFailsInValidateSrs ==
    UnsupportedSrsCall
    => /\ ret.exc = "AssertionError" /\ ret.msg = "srs"
       /\ NoCoordinateTextRead

\* C7 as amended: with an unsupported srs no entry point splits or converts
\* coordinate text and every one fails; validate_bbox and
\* validate_polygon_string fail in validate_srs, and validate_request_params
\* fails in validate_srs unless validate_type_name, which runs first, has
\* already raised its own error.
C7_UnsupportedSrsBeforeCoordinates ==
    UnsupportedSrsCall
    => /\ NoCoordinateTextRead
       /\ ret.exc # "none"
       /\ \/ ret.exc = "AssertionError" /\ ret.msg = "srs"
                /\ ret.trace[Len(ret.trace)] = "validate_srs"
          \/ /\ op = "validate_request_params"
             /\ ret.trace = <<"validate_type_name">>
             /\ ret.exc \in {"TypeError", "ValueError"}
             /\ validate_type_name(args.type_name, args.api_service,
                                   args.allow_premium).exc # "none"

\* validate_request_params has rejected an unsupported srs given together
\* with a polygon string that does not convert.
C7_Witness ==
    /\ Returned("validate_request_params")
    /\ args.srs = "EPSG:3857" /\ args.polygon_string = <<"x">>
    /\ ret.exc = "AssertionError" /\ ret.msg = "srs"

----------------------------------------------------------------------------
(* Properties of create_polygon_filter                                      *)

\* The template of the documentation on one line, with CODE and COORDS.
ExpectedFilter(code, coords) ==
    << "<ogc:Filter>", "<ogc:Intersects>",
       "<ogc:PropertyName>SHAPE</ogc:PropertyName>",
       "<gml:Polygon srsName=\"urn:ogc:def:crs:EPSG::" >>
    \o code
    \o << "\">", "<gml:outerBoundaryIs>", "<gml:LinearRing>",
          "<gml:coordinates>" >>
    \o coords
    \o << "</gml:coordinates>", "</gml:LinearRing>", "</gml:outerBoundaryIs>",
          "</gml:Polygon>", "</ogc:Intersects>", "</ogc:Filter>" >>

HasChar(text, c) == \E i \in DOMAIN text : text[i] = c

\* Everything after the first colon of srs.
AfterColon(srs) ==
    LET i == CHOOSE k \in DOMAIN srs :
                 srs[k] = ":" /\ \A j \in 1..(k - 1) : srs[j] # ":"
    IN  SubSeq(srs, i + 1, Len(srs))

\* The text between the first colon of srs and its next colon, or its end.
UpToColon(text) ==
    IF ~HasChar(text, ":") THEN text
    ELSE LET i == CHOOSE k \in DOMAIN text :
                      text[k] = ":" /\ \A j \in 1..(k - 1) : text[j] # ":"
         IN  SubSeq(text, 1, i - 1)

\* C8 as stated: for every polygon_string and every srs with a colon the
\* result is the one-line template with the text after the colon as CODE and
\* polygon_string, character for character, as COORDS.
C8_FilterVerbatimForEveryInput ==
    (Returned("create_polygon_filter") /\ HasChar(args.srs, ":"))
    => /\ ret.exc = "none"
       /\ ~HasChar(ret.value, "\n")
       /\ ret.value = ExpectedFilter(AfterColon(args.srs), args.polygon_string)

\* C8 as amended: for every polygon_string and every srs with a colon the
\* result holds no line break; with CODE the text between the first colon of
\* srs and its next colon (or its end), the result is the one-line template
\* with CODE and polygon_string character for character whenever neither
\* holds a line break.
C8_FilterVerbatimWithoutLineBreaks ==
    (Returned("create_polygon_filter") /\ HasChar(args.srs, ":"))
    => /\ ret.exc = "none"
       /\ ~HasChar(ret.value, "\n")
       /\ (/\ ~HasChar(args.polygon_string, "\n")
           /\ ~HasChar(UpToColon(AfterColon(args.srs)), "\n"))
          => ret.value = ExpectedFilter(UpToColon(AfterColon(args.srs)),
                                        args.polygon_string)

\* The filter of the documented polygon under EPSG:4326 has been built.
C8_Witness ==
    /\ Returned("create_polygon_filter")
    /\ args.srs = <<"E", "P", "S", "G", ":", "4", "3", "2", "6">>
    /\ args.polygon_string = DocumentedPolygon
    /\ ret.value = ExpectedFilter(<<"4", "3", "2", "6">>, args.polygon_string)

----------------------------------------------------------------------------
(* Properties of geojson_polygon_to_string and convert_features_to_geojson  *)

FirstRing == args.geojson.geometry.coordinates[1]

\* The float f has the value of the coordinate x.
SameNumber(f, x) == f.ok /\ ~f.val.nan /\ f.val.num * x.den = x.num * f.val.den

\* C9: geojson_polygon_to_string emits, for the first ring (x1,y1)..(xn,yn)
\* and whatever the further rings, the text "y1,x1 y2,x2 ... yn,xn", leaves
\* the feature as it was, and the text split on spaces and commas and
\* converted as _validate_polygon_string does gives back, with each pair
\* reversed again, the ring.
C9_RingTextRoundTrip ==
    Returned("geojson_polygon_to_string")
    => /\ heap = args.geojson
       /\ LET pairs == Split(ret.value, " ")
          IN  /\ Len(pairs) = Len(FirstRing)
              /\ \A i \in DOMAIN FirstRing :
                    Split(pairs[i], ",") = <<str(FirstRing[i][2]), str(FirstRing[i][1])>>
       /\ LET parsed == PolygonCoords(ret.value)
          IN  /\ Len(parsed) = Len(FirstRing)
              /\ \A i \in DOMAIN FirstRing :
                    /\ Len(parsed[i]) = 2
                    /\ SameNumber(parsed[i][2], FirstRing[i][1])
                    /\ SameNumber(parsed[i][1], FirstRing[i][2])

\* A feature of two rings has been turned into the text of its first ring.
C9_Witness ==
    /\ Returned("geojson_polygon_to_string")
    /\ Len(args.geojson.geometry.coordinates) = 2
    /\ ret.value = <<"4", "9", ".", "9", ",", "-", "1", ".", "1", " ",
                     "5", "0", ",", "1", " ",
                     "5", "0", ".", "0", ",", "0", ".", "5">>

LineStringInputs ==
    \A i \in DOMAIN args.features : args.features[i].geometry.type = "LineString"

SameOrderSameProperties ==
    /\ Len(ret.value) = Len(args.features)
    /\ \A i \in DOMAIN args.features :
          /\ ret.value[i].geometry.coordinates
                = args.features[i].geometry.coordinates[1]
          /\ ret.value[i].properties = args.features[i].properties

\* C10 as stated: a list of N LineString-typed features gives N features in
\* the same order, each Polygon-typed, built from the first element of the
\* input's coordinates and carrying its properties.
C10_ConvertedToPolygon ==
    (Returned("convert_features_to_geojson") /\ LineStringInputs)
    => /\ SameOrderSameProperties
       /\ \A i \in DOMAIN ret.value : ret.value[i].geometry.type = "Polygon"

\* C10 as amended: a list of N features, LineString-typed or not, gives N
\* features in the same order, each LineString-typed, built from the first
\* element of the input's coordinates and carrying its properties; the input
\* list is left as it was.
C10_ConvertedToLineString ==
    Returned("convert_features_to_geojson")
    => /\ SameOrderSameProperties
       /\ \A i \in DOMAIN ret.value :
             ret.value[i].type = "Feature" /\ ret.value[i].geometry.type = "LineString"
       /\ heap = args.features

\* Two LineString-typed features with different properties and coordinates
\* have been converted.
C10_Witness ==
    /\ Returned("convert_features_to_geojson") /\ LineStringInputs
    /\ Len(args.features) = 2 /\ Len(ret.value) = 2
    /\ args.features[1].properties # args.features[2].properties
    /\ args.features[1].geometry.coordinates # args.features[2].geometry.coordinates
    /\ ret.value[2].properties = args.features[2].properties

====
